---- MODULE Spec2Model ----
(***************************************************************************)
(* A model of the notebook                                                 *)
(*   Tutorials/Boston Housing - XGBoost (Deploy) - High Level.ipynb        *)
(* run from its first code cell to its last ("Run All"): every statement   *)
(* of the code cells is one action, the blocking SDK calls (fit, deploy)   *)
(* are a call, the service's progress and the return.  A cell whose SDK    *)
(* call raises stops the run.                                              *)
(***************************************************************************)
EXTENDS Integers, Sequences, FiniteSets, TLC

\* ------------------------------------------------------------------ bounds

\* The dataset of the row-level model has MinRows..MaxRows rows; the size
\* arithmetic of the two splits is checked apart for up to MaxSizeRows rows.
MinRows == 3
MaxRows == 5
MaxSizeRows == 520

\* ------------------------------------------------------- program constants

\* The 13 feature columns of the dataset (boston.feature_names).
NumFeatures == 13

\* test_size=0.33 of both train_test_split calls, in hundredths.
TestPercent == 33

prefix == "boston-xgboost-deploy-hl"

data_dir == "../data/boston"

\* session.default_bucket()
DefaultBucket == "sagemaker-default-bucket"

\* The name the service gives the training job and the endpoint of this run.
JobName == "xgboost-job"

TrainInstanceType == "ml.m4.xlarge"

\* ------------------------------------------------------------ the dataset

Range(s) == {s[k] : k \in 1..Len(s)}

\* boston.data[i][j] and boston.target[i]: distinct values, so that a row
\* and a column of a file can be told from every other one.
Feature(i, j) == 100 * i + j

Target(i) == 100 * i

\* load_boston(): n rows of NumFeatures features and one target each.
load_boston(n) ==
    [data   |-> [i \in 1..n |-> [j \in 1..NumFeatures |-> Feature(i, j)]],
     target |-> [i \in 1..n |-> Target(i)]]

\* pd.DataFrame(array): one row per entry, under a RangeIndex 0..n-1.  A
\* frame is the sequence of its rows, a row its index label and its values.
DataFrame(rows) ==
    [k \in 1..Len(rows) |-> [idx |-> k - 1, vals |-> rows[k]]]

\* pd.DataFrame(boston.target): a frame of one column.
TargetFrame(target) ==
    DataFrame([k \in 1..Len(target) |-> <<target[k]>>])

Index(frame) == {frame[k].idx : k \in 1..Len(frame)}

\* ------------------------------------------------------- train_test_split

\* n_test = ceil(test_size * n_samples) with test_size = 0.33.
NTest(n) == (TestPercent * n + 99) \div 100

\* train_size is not given: n_train = n_samples - n_test.
NTrain(n) == n - NTest(n)

Perms(n) == {p \in [1..n -> 1..n] : \A a, b \in 1..n : p[a] = p[b] => a = b}

\* frame.iloc[positions]
Take(frame, positions) ==
    [k \in 1..Len(positions) |-> frame[positions[k]]]

\* sklearn.model_selection.train_test_split(X, Y, test_size=0.33) under the
\* shuffle perm: the first n_test places of the shuffle are the test rows,
\* the rest the training rows, and X and Y are cut at the same places.
train_test_split(X, Y, perm) ==
    LET n     == Len(X)
        test  == SubSeq(perm, 1, NTest(n))
        train == SubSeq(perm, NTest(n) + 1, NTest(n) + NTrain(n))
    IN  [X_train |-> Take(X, train), X_test |-> Take(X, test),
         Y_train |-> Take(Y, train), Y_test |-> Take(Y, test)]

\* --------------------------------------------------------------- CSV files

\* pd.concat([left, right], axis=1): the rows of the two frames that carry
\* the same index label are joined, left columns first.
concat(left, right) ==
    [k \in 1..Len(left) |->
        LET r == CHOOSE m \in 1..Len(right) : right[m].idx = left[k].idx
        IN  [idx |-> left[k].idx, vals |-> left[k].vals \o right[r].vals]]

\* frame.to_csv(path, header=, index=): the lines of the file, each the
\* sequence of its comma-separated entries.  A header is one line of column
\* labels (here the column positions), an index one leading entry per line.
to_csv(frame, header, index) ==
    LET width == Len(frame[1].vals)
        head  == IF header
                 THEN <<(IF index THEN <<-1>> ELSE <<>>)
                        \o [j \in 1..width |-> j - 1]>>
                 ELSE <<>>
        body  == [k \in 1..Len(frame) |->
                    (IF index THEN <<frame[k].idx>> ELSE <<>>) \o frame[k].vals]
    IN  head \o body

FileNames == {"validation.csv", "train.csv"}

NoFile == [exists |-> FALSE, lines |-> <<>>]

\* What an earlier run may have left in the data directory.
StaleFile == [exists |-> TRUE, lines |-> <<<<0>>>>]

\* --------------------------------------------------------- object storage

\* session.upload_data(path, key_prefix=prefix): the object's bucket is the
\* session's default bucket, its key the prefix and the file's name.
UploadKey(name) == [bucket |-> DefaultBucket, path |-> <<prefix, name>>]

\* The "s3://bucket/key" location of an object, as its components.
S3Uri(key) == <<"s3", key.bucket>> \o key.path

\* output_path='s3://{}/{}/output'.format(session.default_bucket(), prefix)
OutputPath == <<"s3", DefaultBucket, prefix, "output">>

\* The training job stores its model below the estimator's output path, at
\* <output_path>/<job name>/output/model.tar.gz.
ArtifactKey(output_path) ==
    [bucket |-> output_path[2],
     path   |-> SubSeq(output_path, 3, Len(output_path))
                \o <<JobName, "output", "model.tar.gz">>]

\* Objects of other notebooks and projects: another prefix of the same
\* bucket, the SDK's own default prefix, and the same key in another bucket.
OtherKeys ==
    {[bucket |-> DefaultBucket, path |-> <<"other-project", "train.csv">>],
     [bucket |-> DefaultBucket, path |-> <<"data", "train.csv">>],
     [bucket |-> "other-bucket", path |-> <<prefix, "train.csv">>]}

OwnKeys == {UploadKey(name) : name \in FileNames} \cup {ArtifactKey(OutputPath)}

Keys == OwnKeys \cup OtherKeys

NoObject == [exists |-> FALSE, body |-> <<>>]

OtherObject == [exists |-> TRUE, body |-> <<<<7>>>>]

\* The model artifact the training job uploads.
ModelArtifact == [exists |-> TRUE, body |-> <<<<1>>>>]

UnderPrefix(key) == key.bucket = DefaultBucket /\ key.path[1] = prefix

\* ------------------------------------------------------------------ state

VARIABLES
    pc,             \* the statement the run executes next
    boston,         \* the loaded dataset
    X_bos_pd, Y_bos_pd,
    X_train, X_test, Y_train, Y_test, X_val, Y_val,
    dirExists,      \* os.path.exists(data_dir)
    files,          \* the files of data_dir
    s3,             \* object storage: the object at each key
    val_location, train_location,
    container,      \* the training image's name
    xgb,            \* the estimator
    s3_input_train, s3_input_validation,
    job,            \* the managed training job
    endpoint,       \* the hosted endpoint
    xgb_predictor,
    Y_pred,
    plotted,        \* the points of the scatter plot
    ops,            \* history: the calls the run has made, in order
    written,        \* history: the keys the run has written to object storage
    env0,           \* history: object storage and the data directory as the run found them
    requests,       \* history: the requests the endpoint has received
    sz,             \* the partition sizes of the size arithmetic
    boost           \* the boosting rounds of the training job

dataVars == <<boston, X_bos_pd, Y_bos_pd, X_train, X_test, Y_train, Y_test, X_val, Y_val>>

localVars == <<dirExists, files>>

storeVars == <<s3, written, val_location, train_location>>

trainVars == <<container, xgb, s3_input_train, s3_input_validation, job>>

serveVars == <<endpoint, xgb_predictor, Y_pred, plotted, requests>>

vars == <<pc, dataVars, localVars, storeVars, trainVars, serveVars, ops, env0, sz, boost>>

\* The statements of the code cells, top to bottom.  fit and deploy block:
\* after the call the run waits for the service and then returns.
PcOrder ==
    <<"load_boston", "dataframe_X", "dataframe_Y", "split1", "split2",
      "data_dir", "to_csv_val", "to_csv_train", "upload_val", "upload_train",
      "get_image_uri", "estimator", "set_hyperparameters",
      "s3_input_train", "s3_input_validation", "fit", "fit_wait",
      "deploy", "deploy_wait", "set_content_type", "set_serializer",
      "predict", "fromstring", "plot", "delete_endpoint", "done">>

PcIndex(p) == CHOOSE k \in 1..Len(PcOrder) : PcOrder[k] = p

\* A swap of the last two cells: a slip the order of the cells allows.
NextPcDeleteFirst(p) ==
    CASE p = "fromstring"      -> "delete_endpoint"
      [] p = "delete_endpoint" -> "plot"
      [] p = "plot"            -> "done"
      [] OTHER                 -> PcOrder[PcIndex(p) + 1]

\* The hyperparameter cell placed below the fit cell.
NextPcFitFirst(p) ==
    CASE p = "estimator"           -> "s3_input_train"
      [] p = "fit_wait"            -> "set_hyperparameters"
      [] p = "set_hyperparameters" -> "deploy"
      [] OTHER                     -> PcOrder[PcIndex(p) + 1]

\* Run All: after a statement, the one below it.
NextPc(p) == PcOrder[PcIndex(p) + 1]

\* The statements that call the cloud service, each of which may raise.
SdkCalls ==
    {"upload_val", "upload_train", "fit", "fit_wait", "deploy", "deploy_wait",
     "predict", "delete_endpoint"}

NoFrame == <<>>

NoLocation == <<>>

NoInput == [s3_data |-> <<>>, content_type |-> ""]

NoEstimator ==
    [container |-> "", role |-> "", train_instance_count |-> 0,
     train_instance_type |-> "", output_path |-> <<>>, hyperparameters |-> {}]

NoJob ==
    [status |-> "None", channels |-> [c \in {"train", "validation"} |-> NoInput],
     image |-> "", output_path |-> <<>>, log |-> <<>>,
     role |-> "", instance_count |-> 0, instance_type |-> "",
     hyperparameters |-> {}]

NoEndpoint == [status |-> "None", name |-> ""]

NoPredictor == [endpoint |-> "", content_type |-> "", serializer |-> ""]

\* No boosting round run: no validation error seen, no best round.
BoostOff ==
    [stage |-> "off", source |-> "none", round |-> -1, err |-> 0, best |-> 0,
     best_round |-> -1]

SizesOff == [stage |-> "off", n |-> 0, train |-> 0, test |-> 0, val |-> 0]

\* Object storage as a run may find it: empty, holding other projects'
\* objects, or holding those and the objects of an earlier run of this one.
InitStores ==
    {[k \in Keys |-> NoObject],
     [k \in Keys |-> IF k \in OtherKeys THEN OtherObject ELSE NoObject],
     [k \in Keys |-> OtherObject]}

\* Nothing loaded, built, trained or deployed yet.
Blank ==
    /\ boston = [data |-> <<>>, target |-> <<>>]
    /\ X_bos_pd = NoFrame /\ Y_bos_pd = NoFrame
    /\ X_train = NoFrame /\ X_test = NoFrame /\ X_val = NoFrame
    /\ Y_train = NoFrame /\ Y_test = NoFrame /\ Y_val = NoFrame
    /\ written = {}
    /\ val_location = NoLocation /\ train_location = NoLocation
    /\ container = ""
    /\ xgb = NoEstimator
    /\ s3_input_train = NoInput /\ s3_input_validation = NoInput
    /\ job = NoJob
    /\ endpoint = NoEndpoint
    /\ xgb_predictor = NoPredictor
    /\ Y_pred = <<>>
    /\ plotted = <<>>
    /\ requests = <<>>
    /\ ops = <<>>

\* The state the first code cells leave: modules imported, session and role
\* obtained, nothing loaded.  The data directory may exist from an earlier
\* run, and then may hold that run's files.
Init ==
    /\ pc = "load_boston"
    /\ dirExists \in BOOLEAN
    /\ files \in {[f \in FileNames |-> NoFile]}
                 \cup (IF dirExists THEN {[f \in FileNames |-> StaleFile]} ELSE {})
    /\ s3 \in InitStores
    /\ env0 = [s3 |-> s3, dirExists |-> dirExists]
    /\ Blank
    /\ sz = SizesOff
    /\ boost = BoostOff

\* ------------------------------------------------- Step 1, 2: load, split

\* boston = load_boston()
LoadBoston ==
    /\ pc = "load_boston"
    /\ \E n \in MinRows..MaxRows : boston' = load_boston(n)
    /\ ops' = Append(ops, "load_boston")
    /\ pc' = NextPc(pc)
    /\ UNCHANGED <<X_bos_pd, Y_bos_pd, X_train, X_test, Y_train, Y_test, X_val, Y_val,
                   localVars, storeVars, trainVars, serveVars, env0, sz, boost>>

\* X_bos_pd = pd.DataFrame(boston.data, columns=boston.feature_names)
MakeXFrame ==
    /\ pc = "dataframe_X"
    /\ X_bos_pd' = DataFrame(boston.data)
    /\ ops' = Append(ops, "dataframe_X")
    /\ pc' = NextPc(pc)
    /\ UNCHANGED <<boston, Y_bos_pd, X_train, X_test, Y_train, Y_test, X_val, Y_val,
                   localVars, storeVars, trainVars, serveVars, env0, sz, boost>>

\* Y_bos_pd = pd.DataFrame(boston.target)
MakeYFrame ==
    /\ pc = "dataframe_Y"
    /\ Y_bos_pd' = TargetFrame(boston.target)
    /\ ops' = Append(ops, "dataframe_Y")
    /\ pc' = NextPc(pc)
    /\ UNCHANGED <<boston, X_bos_pd, X_train, X_test, Y_train, Y_test, X_val, Y_val,
                   localVars, storeVars, trainVars, serveVars, env0, sz, boost>>

\* The frames the second split cuts, were it handed the whole dataset.
SecondSplitInputWhole == <<X_bos_pd, Y_bos_pd>>

\* The frames the second split cuts: the training frames of the first.
SecondSplitInput == <<X_train, Y_train>>

\* X_train, X_test, Y_train, Y_test = train_test_split(X_bos_pd, Y_bos_pd, test_size=0.33)
Split1 ==
    /\ pc = "split1"
    /\ \E perm \in Perms(Len(X_bos_pd)) :
          LET r == train_test_split(X_bos_pd, Y_bos_pd, perm)
          IN  /\ X_train' = r.X_train /\ X_test' = r.X_test
              /\ Y_train' = r.Y_train /\ Y_test' = r.Y_test
    /\ ops' = Append(ops, "split1")
    /\ pc' = NextPc(pc)
    /\ UNCHANGED <<boston, X_bos_pd, Y_bos_pd, X_val, Y_val,
                   localVars, storeVars, trainVars, serveVars, env0, sz, boost>>

\* X_train, X_val, Y_train, Y_val = train_test_split(X_train, Y_train, test_size=0.33)
Split2 ==
    /\ pc = "split2"
    /\ \E perm \in Perms(Len(SecondSplitInput[1])) :
          LET r == train_test_split(SecondSplitInput[1], SecondSplitInput[2], perm)
          IN  /\ X_train' = r.X_train /\ X_val' = r.X_test
              /\ Y_train' = r.Y_train /\ Y_val' = r.Y_test
    /\ ops' = Append(ops, "split2")
    /\ pc' = NextPc(pc)
    /\ UNCHANGED <<boston, X_bos_pd, Y_bos_pd, X_test, Y_test,
                   localVars, storeVars, trainVars, serveVars, env0, sz, boost>>

\* ------------------------------------------------- Step 3: save and upload

\* Whether the cell calls os.makedirs, were the call not guarded.
NeedsMakedirsAlways == TRUE

\* if not os.path.exists(data_dir): the branch that calls os.makedirs.
NeedsMakedirs == ~dirExists

\* if not os.path.exists(data_dir): os.makedirs(data_dir)
MakeDataDir ==
    /\ pc = "data_dir"
    /\ dirExists' = TRUE
    /\ ops' = IF NeedsMakedirs
              THEN ops \o <<"path_exists", "makedirs">>
              ELSE Append(ops, "path_exists")
    /\ pc' = NextPc(pc)
    /\ UNCHANGED <<dataVars, files, storeVars, trainVars, serveVars, env0, sz, boost>>

\* The frame a file is written from, target column last.
CsvFrameFeaturesFirst(Y, X) == concat(X, Y)

\* pd.concat([Y, X], axis=1): the target column first.
CsvFrame(Y, X) == concat(Y, X)

\* to_csv with the library's defaults, header=True and index=True.
WriteCsvDefaults(frame) == to_csv(frame, TRUE, TRUE)

\* .to_csv(path, header=False, index=False)
WriteCsv(frame) == to_csv(frame, FALSE, FALSE)

\* pd.concat([Y_val, X_val], axis=1).to_csv(.../validation.csv, header=False, index=False)
SaveValidationCsv ==
    /\ pc = "to_csv_val"
    /\ files' = [files EXCEPT !["validation.csv"] =
                    [exists |-> TRUE, lines |-> WriteCsv(CsvFrame(Y_val, X_val))]]
    /\ ops' = Append(ops, "to_csv_val")
    /\ pc' = NextPc(pc)
    /\ UNCHANGED <<dataVars, dirExists, storeVars, trainVars, serveVars, env0, sz, boost>>

\* pd.concat([Y_train, X_train], axis=1).to_csv(.../train.csv, header=False, index=False)
SaveTrainCsv ==
    /\ pc = "to_csv_train"
    /\ files' = [files EXCEPT !["train.csv"] =
                    [exists |-> TRUE, lines |-> WriteCsv(CsvFrame(Y_train, X_train))]]
    /\ ops' = Append(ops, "to_csv_train")
    /\ pc' = NextPc(pc)
    /\ UNCHANGED <<dataVars, dirExists, storeVars, trainVars, serveVars, env0, sz, boost>>

\* upload_data without key_prefix: the SDK's default prefix, 'data'.
UploadTargetDefault(name) == [bucket |-> DefaultBucket, path |-> <<"data", name>>]

\* The key session.upload_data(path, key_prefix=prefix) writes.
UploadTarget(name) == UploadKey(name)

\* session.upload_data(path, key_prefix=prefix): stores the file and returns
\* the object's location.
upload_data(name) ==
    LET key == UploadTarget(name)
    IN  [store    |-> [s3 EXCEPT ![key] = [exists |-> TRUE, body |-> files[name].lines]],
         key      |-> key,
         location |-> S3Uri(key)]

\* val_location = session.upload_data(.../validation.csv, key_prefix=prefix)
UploadValidation ==
    /\ pc = "upload_val"
    /\ LET u == upload_data("validation.csv")
       IN  /\ s3' = u.store
           /\ written' = written \cup {u.key}
           /\ val_location' = u.location
    /\ ops' = Append(ops, "upload_val")
    /\ pc' = NextPc(pc)
    /\ UNCHANGED <<dataVars, localVars, train_location, trainVars, serveVars, env0, sz, boost>>

\* train_location = session.upload_data(.../train.csv, key_prefix=prefix)
UploadTrain ==
    /\ pc = "upload_train"
    /\ LET u == upload_data("train.csv")
       IN  /\ s3' = u.store
           /\ written' = written \cup {u.key}
           /\ train_location' = u.location
    /\ ops' = Append(ops, "upload_train")
    /\ pc' = NextPc(pc)
    /\ UNCHANGED <<dataVars, localVars, val_location, trainVars, serveVars, env0, sz, boost>>

\* --------------------------------------------------------- Step 4: train

\* container = get_image_uri(session.boto_region_name, 'xgboost', "0.90-1")
GetImageUri ==
    /\ pc = "get_image_uri"
    /\ container' = "xgboost:0.90-1"
    /\ ops' = Append(ops, "get_image_uri")
    /\ pc' = NextPc(pc)
    /\ UNCHANGED <<dataVars, localVars, storeVars, xgb, s3_input_train,
                   s3_input_validation, job, serveVars, env0, sz, boost>>

\* xgb = sagemaker.estimator.Estimator(container, role, train_instance_count=1,
\*           train_instance_type='ml.m4.xlarge', output_path=..., sagemaker_session=session)
MakeEstimator ==
    /\ pc = "estimator"
    /\ xgb' = [container |-> container, role |-> "execution-role",
               train_instance_count |-> 1,
               train_instance_type |-> TrainInstanceType,
               output_path |-> OutputPath, hyperparameters |-> {}]
    /\ ops' = Append(ops, "estimator")
    /\ pc' = NextPc(pc)
    /\ UNCHANGED <<dataVars, localVars, storeVars, container, s3_input_train,
                   s3_input_validation, job, serveVars, env0, sz, boost>>

\* The keyword arguments of xgb.set_hyperparameters, as written.
Hyperparameters ==
    {<<"max_depth", "5">>, <<"eta", "0.2">>, <<"gamma", "4">>,
     <<"min_child_weight", "6">>, <<"subsample", "0.8">>,
     <<"objective", "reg:squarederror">>, <<"early_stopping_rounds", "10">>,
     <<"num_round", "200">>}

\* xgb.set_hyperparameters(...)
SetHyperparameters ==
    /\ pc = "set_hyperparameters"
    /\ xgb' = [xgb EXCEPT !.hyperparameters = Hyperparameters]
    /\ ops' = Append(ops, "set_hyperparameters")
    /\ pc' = NextPc(pc)
    /\ UNCHANGED <<dataVars, localVars, storeVars, container, s3_input_train,
                   s3_input_validation, job, serveVars, env0, sz, boost>>

\* sagemaker.s3_input(s3_data=location, content_type='csv')
s3_input(location) == [s3_data |-> location, content_type |-> "csv"]

\* s3_input_train = sagemaker.s3_input(s3_data=train_location, content_type='csv')
MakeTrainInput ==
    /\ pc = "s3_input_train"
    /\ s3_input_train' = s3_input(train_location)
    /\ ops' = Append(ops, "s3_input_train")
    /\ pc' = NextPc(pc)
    /\ UNCHANGED <<dataVars, localVars, storeVars, container, xgb,
                   s3_input_validation, job, serveVars, env0, sz, boost>>

\* s3_input_validation = sagemaker.s3_input(s3_data=val_location, content_type='csv')
MakeValidationInput ==
    /\ pc = "s3_input_validation"
    /\ s3_input_validation' = s3_input(val_location)
    /\ ops' = Append(ops, "s3_input_validation")
    /\ pc' = NextPc(pc)
    /\ UNCHANGED <<dataVars, localVars, storeVars, container, xgb,
                   s3_input_train, job, serveVars, env0, sz, boost>>

\* The statuses of a training job, in the order the service reports them.
JobStatuses == <<"Starting", "Downloading", "Training", "Uploading", "Completed">>

StatusIndex(st) ==
    IF st \in Range(JobStatuses)
    THEN CHOOSE k \in 1..Len(JobStatuses) : JobStatuses[k] = st
    ELSE 0

\* The channels of fit, with the two inputs exchanged.
FitInputsSwapped ==
    [c \in {"train", "validation"} |->
        IF c = "train" THEN s3_input_validation ELSE s3_input_train]

\* {'train': s3_input_train, 'validation': s3_input_validation}
FitInputs ==
    [c \in {"train", "validation"} |->
        IF c = "train" THEN s3_input_train ELSE s3_input_validation]

\* xgb.fit(inputs): the call starts a training job of the estimator's image
\* on the channels, under the estimator's role, instance settings and
\* hyperparameters as they are at the call, which is to store its model
\* below the output path.  The job's log is the statuses fit prints while
\* it waits.
FitStart ==
    /\ pc = "fit"
    /\ job' = [status |-> JobStatuses[1], channels |-> FitInputs,
               image |-> xgb.container, output_path |-> xgb.output_path,
               log |-> <<JobStatuses[1]>>,
               role |-> xgb.role, instance_count |-> xgb.train_instance_count,
               instance_type |-> xgb.train_instance_type,
               hyperparameters |-> xgb.hyperparameters]
    /\ ops' = Append(ops, "fit")
    /\ pc' = NextPc(pc)
    /\ UNCHANGED <<dataVars, localVars, storeVars, container, xgb, s3_input_train,
                   s3_input_validation, serveVars, env0, sz, boost>>

\* The service moves the job to its next status while fit waits; a job that
\* completes has stored its model artifact.
JobAdvance ==
    /\ pc = "fit_wait"
    /\ StatusIndex(job.status) \in 1..(Len(JobStatuses) - 1)
    /\ LET next == JobStatuses[StatusIndex(job.status) + 1]
           key  == ArtifactKey(job.output_path)
       IN  /\ job' = [job EXCEPT !.status = next, !.log = Append(@, next)]
           /\ IF next = "Completed"
              THEN /\ s3' = [s3 EXCEPT ![key] = ModelArtifact]
                   /\ written' = written \cup {key}
              ELSE UNCHANGED <<s3, written>>
    /\ UNCHANGED <<pc, dataVars, localVars, val_location, train_location, container,
                   xgb, s3_input_train, s3_input_validation, serveVars, ops, env0, sz, boost>>

\* fit(wait=False): the call returns at once.
FitMayReturnNoWait == TRUE

\* fit waits (wait=True, the default) for the job's last status.
FitMayReturn == job.status = "Completed"

\* xgb.fit returns.
FitReturn ==
    /\ pc = "fit_wait"
    /\ FitMayReturn
    /\ ops' = Append(ops, "fit.return")
    /\ pc' = NextPc(pc)
    /\ UNCHANGED <<dataVars, localVars, storeVars, trainVars, serveVars, env0, sz, boost>>

\* ------------------------------------------------- Step 6, 7: deploy, use

\* xgb.deploy(initial_instance_count=1, instance_type='ml.m4.xlarge'): the
\* call creates the endpoint.
DeployStart ==
    /\ pc = "deploy"
    /\ endpoint' = [status |-> "Creating", name |-> JobName]
    /\ ops' = Append(ops, "deploy")
    /\ pc' = NextPc(pc)
    /\ UNCHANGED <<dataVars, localVars, storeVars, trainVars, xgb_predictor, Y_pred,
                   plotted, requests, env0, sz, boost>>

\* The service brings the endpoint into service while deploy waits.
EndpointInService ==
    /\ pc = "deploy_wait"
    /\ endpoint.status = "Creating"
    /\ endpoint' = [endpoint EXCEPT !.status = "InService"]
    /\ UNCHANGED <<pc, dataVars, localVars, storeVars, trainVars, xgb_predictor, Y_pred,
                   plotted, requests, ops, env0, sz, boost>>

\* deploy(wait=False): the call returns while the endpoint is being created.
DeployMayReturnNoWait == TRUE

\* deploy waits for the endpoint to be in service.
DeployMayReturn == endpoint.status = "InService"

\* xgb_predictor = xgb.deploy(...) returns the endpoint's predictor.
DeployReturn ==
    /\ pc = "deploy_wait"
    /\ DeployMayReturn
    /\ xgb_predictor' = [NoPredictor EXCEPT !.endpoint = endpoint.name]
    /\ ops' = Append(ops, "deploy.return")
    /\ pc' = NextPc(pc)
    /\ UNCHANGED <<dataVars, localVars, storeVars, trainVars, endpoint, Y_pred,
                   plotted, requests, env0, sz, boost>>

\* xgb_predictor.content_type = 'text/csv'
SetContentType ==
    /\ pc = "set_content_type"
    /\ xgb_predictor' = [xgb_predictor EXCEPT !.content_type = "text/csv"]
    /\ ops' = Append(ops, "set_content_type")
    /\ pc' = NextPc(pc)
    /\ UNCHANGED <<dataVars, localVars, storeVars, trainVars, endpoint, Y_pred,
                   plotted, requests, env0, sz, boost>>

\* xgb_predictor.serializer = csv_serializer
SetSerializer ==
    /\ pc = "set_serializer"
    /\ xgb_predictor' = [xgb_predictor EXCEPT !.serializer = "csv_serializer"]
    /\ ops' = Append(ops, "set_serializer")
    /\ pc' = NextPc(pc)
    /\ UNCHANGED <<dataVars, localVars, storeVars, trainVars, endpoint, Y_pred,
                   plotted, requests, env0, sz, boost>>

\* X_test.values: the rows' values, without the index.
Values(frame) == [k \in 1..Len(frame) |-> frame[k].vals]

\* The model's prediction for a row of features.
Predict1(row) == row[1] + 50

\* The test rows sent one row a request.
PredictBatchesPerRow(rows) == [k \in 1..Len(rows) |-> <<rows[k]>>]

\* xgb_predictor.predict(X_test.values): all rows in one request.
PredictBatches(rows) == <<rows>>

\* Y_pred = xgb_predictor.predict(X_test.values).decode('utf-8'): each batch
\* is one request to the predictor's endpoint; the response is one line of
\* comma-separated predictions, one a row.  A request to an endpoint that is
\* not in service fails.
Predict ==
    /\ pc = "predict"
    /\ LET batches == PredictBatches(Values(X_test))
       IN  /\ requests' = requests \o
                 [b \in 1..Len(batches) |->
                     [endpoint |-> xgb_predictor.endpoint,
                      status   |-> endpoint.status,
                      content_type |-> xgb_predictor.content_type,
                      rows     |-> batches[b]]]
           /\ IF endpoint.status = "InService" /\ endpoint.name = xgb_predictor.endpoint
              THEN /\ Y_pred' = <<[k \in 1..Len(batches[Len(batches)]) |->
                                      Predict1(batches[Len(batches)][k])]>>
                   /\ pc' = NextPc(pc)
              ELSE /\ Y_pred' = Y_pred
                   /\ pc' = "aborted"
    /\ ops' = Append(ops, "predict")
    /\ UNCHANGED <<dataVars, localVars, storeVars, trainVars, endpoint, xgb_predictor,
                   plotted, env0, sz, boost>>

\* Y_pred = np.fromstring(Y_pred, sep=','): the entries of the text, as numbers.
FromString ==
    /\ pc = "fromstring"
    /\ Y_pred' = Y_pred[1]
    /\ ops' = Append(ops, "fromstring")
    /\ pc' = NextPc(pc)
    /\ UNCHANGED <<dataVars, localVars, storeVars, trainVars, endpoint, xgb_predictor,
                   plotted, requests, env0, sz, boost>>

\* plt.scatter(Y_test, Y_pred) and the labels and title.
Plot ==
    /\ pc = "plot"
    /\ plotted' = [k \in 1..Len(Y_test) |->
                      <<Y_test[k].vals[1], IF k <= Len(Y_pred) THEN Y_pred[k] ELSE 0>>]
    /\ ops' = Append(ops, "plot")
    /\ pc' = NextPc(pc)
    /\ UNCHANGED <<dataVars, localVars, storeVars, trainVars, endpoint, xgb_predictor,
                   Y_pred, requests, env0, sz, boost>>

\* A call that removes the endpoint's configuration and leaves it running.
EndpointAfterDeleteConfigOnly == endpoint

\* delete_endpoint deletes the endpoint the predictor names.
EndpointAfterDelete ==
    IF endpoint.name = xgb_predictor.endpoint
    THEN [endpoint EXCEPT !.status = "Deleted"]
    ELSE endpoint

\* xgb_predictor.delete_endpoint()
DeleteEndpoint ==
    /\ pc = "delete_endpoint"
    /\ endpoint' = EndpointAfterDelete
    /\ ops' = Append(ops, "delete_endpoint")
    /\ pc' = NextPc(pc)
    /\ UNCHANGED <<dataVars, localVars, storeVars, trainVars, xgb_predictor, Y_pred,
                   plotted, requests, env0, sz, boost>>

\* An SDK call raises (the service refuses or fails the request, the job or
\* the endpoint fails): the cell stops, and with it the run.
Abort ==
    /\ pc \in SdkCalls
    /\ pc' = "aborted"
    /\ UNCHANGED <<dataVars, localVars, storeVars, trainVars, serveVars, ops, env0, sz, boost>>

Next ==
    \/ LoadBoston \/ MakeXFrame \/ MakeYFrame \/ Split1 \/ Split2
    \/ MakeDataDir \/ SaveValidationCsv \/ SaveTrainCsv
    \/ UploadValidation \/ UploadTrain
    \/ GetImageUri \/ MakeEstimator \/ SetHyperparameters
    \/ MakeTrainInput \/ MakeValidationInput
    \/ FitStart \/ JobAdvance \/ FitReturn
    \/ DeployStart \/ EndpointInService \/ DeployReturn
    \/ SetContentType \/ SetSerializer \/ Predict \/ FromString \/ Plot
    \/ DeleteEndpoint
    \/ Abort

Spec == Init /\ [][Next]_vars

\* ------------------------------------------- the sizes of the partitions

\* The size arithmetic of the two splits alone, for datasets as large as
\* the one the notebook loads: the sizes train_test_split computes do not
\* depend on the shuffle.
InitSizes ==
    /\ pc = "sizes"
    /\ dirExists = FALSE
    /\ files = [f \in FileNames |-> NoFile]
    /\ s3 = [k \in Keys |-> NoObject]
    /\ env0 = [s3 |-> s3, dirExists |-> dirExists]
    /\ Blank
    /\ \E n \in MinRows..MaxSizeRows :
          sz = [stage |-> "loaded", n |-> n, train |-> 0, test |-> 0, val |-> 0]
    /\ boost = BoostOff

\* The sizes of X_train and X_test after the first train_test_split.
SizeSplit1 ==
    /\ sz.stage = "loaded"
    /\ sz' = [sz EXCEPT !.stage = "split1", !.test = NTest(sz.n), !.train = NTrain(sz.n)]
    /\ UNCHANGED <<pc, dataVars, localVars, storeVars, trainVars, serveVars, ops, env0,
                   boost>>

\* The sizes of X_train and X_val after the second, of the first's X_train.
SizeSplit2 ==
    /\ sz.stage = "split1"
    /\ sz' = [sz EXCEPT !.stage = "split2", !.val = NTest(sz.train),
                        !.train = NTrain(sz.train)]
    /\ UNCHANGED <<pc, dataVars, localVars, storeVars, trainVars, serveVars, ops, env0,
                   boost>>

NextSizes == SizeSplit1 \/ SizeSplit2

SpecSizes == InitSizes /\ [][NextSizes]_vars

\* ------------------------------------------------- the boosting rounds

\* early_stopping_rounds=10
EarlyStoppingRounds == 10

\* num_round=200
NumRound == 200

\* The validation errors a round may report, where any are possible.
ErrLevels == 21

\* The validation-rmse the recorded job printed for its rounds 0, 1, ...,
\* in units of 0.00001.
RecordedValidationRmse ==
    <<1963090, 1587830, 1310250, 1072070, 872342, 728402,
      613220, 529598, 459393, 411997, 372306, 339049,
      322883, 312645, 306354, 309379, 302182, 301892,
      299629, 301114, 298694, 293065, 294349, 291094,
      293881, 293439, 293057, 291449, 294017, 299086,
      299377, 300582, 298706, 301168>>

\* Early stopping with the comparison shifted by one round.
ShouldStopLate(round, best_round) == round - best_round > EarlyStoppingRounds

\* A round that does not improve on the best validation error stops the
\* training when it is early_stopping_rounds or more past the best round.
ShouldStop(round, best_round) == round - best_round >= EarlyStoppingRounds

\* The training of the job alone: the recorded run, whose rounds report the
\* errors of the log, and runs whose rounds report any error.
InitRounds ==
    /\ pc = "rounds"
    /\ dirExists = FALSE
    /\ files = [f \in FileNames |-> NoFile]
    /\ s3 = [k \in Keys |-> NoObject]
    /\ env0 = [s3 |-> s3, dirExists |-> dirExists]
    /\ Blank
    /\ sz = SizesOff
    /\ \E source \in {"recorded", "any"} :
          boost = [BoostOff EXCEPT !.stage = "ready", !.source = source]

\* The job enters its status Training.
BoostStart ==
    /\ boost.stage = "ready"
    /\ boost' = [boost EXCEPT !.stage = "running"]
    /\ UNCHANGED <<pc, dataVars, localVars, storeVars, trainVars, serveVars, ops, env0, sz>>

\* One boosting round: the round reports its validation error; an error
\* below the best so far makes the round the best one, otherwise the round
\* may stop the training; the round num_round - 1 is the last in any case.
\* A recorded run that needs a round the log does not have is off the log.
BoostRound ==
    /\ boost.stage = "running"
    /\ LET i == boost.round + 1
       IN  IF boost.source = "recorded" /\ i + 1 > Len(RecordedValidationRmse)
           THEN boost' = [boost EXCEPT !.stage = "off_log"]
           ELSE \E e \in (IF boost.source = "recorded"
                          THEN {RecordedValidationRmse[i + 1]}
                          ELSE 1..ErrLevels) :
                   LET improved == boost.round = -1 \/ e < boost.best
                       stage == IF ~improved /\ ShouldStop(i, boost.best_round)
                                THEN "stopped"
                                ELSE IF i = NumRound - 1 THEN "finished" ELSE "running"
                   IN  boost' = [boost EXCEPT
                                    !.round = i, !.err = e, !.stage = stage,
                                    !.best = IF improved THEN e ELSE @,
                                    !.best_round = IF improved THEN i ELSE @]
    /\ UNCHANGED <<pc, dataVars, localVars, storeVars, trainVars, serveVars, ops, env0, sz>>

NextRounds == BoostStart \/ BoostRound

SpecRounds == InitRounds /\ [][NextRounds]_vars

\* ------------------------------------------------------------ properties

Called(e) == e \in Range(ops)

NoRepeat(log) == \A a, b \in 1..Len(log) : log[a] = log[b] => a = b

\* The pipeline steps, and the calls each is made of.
StepOrder ==
    <<"load", "split", "write_csv", "upload", "fit", "deploy", "predict",
      "plot", "delete">>

StepOf(e) ==
    CASE e = "load_boston"                   -> "load"
      [] e \in {"split1", "split2"}          -> "split"
      [] e \in {"to_csv_val", "to_csv_train"} -> "write_csv"
      [] e \in {"upload_val", "upload_train"} -> "upload"
      [] e \in {"fit", "fit.return"}         -> "fit"
      [] e \in {"deploy", "deploy.return"}   -> "deploy"
      [] e \in {"predict", "fromstring"}     -> "predict"
      [] e = "plot"                          -> "plot"
      [] e = "delete_endpoint"               -> "delete"
      [] OTHER                               -> "none"

\* The call whose return ends a step.
LastCall(step) ==
    CASE step = "load"      -> "load_boston"
      [] step = "split"     -> "split2"
      [] step = "write_csv" -> "to_csv_train"
      [] step = "upload"    -> "upload_train"
      [] step = "fit"       -> "fit.return"
      [] step = "deploy"    -> "deploy.return"
      [] step = "predict"   -> "fromstring"
      [] step = "plot"      -> "plot"
      [] step = "delete"    -> "delete_endpoint"

\* The steps a log of calls went through, a step named each time the run
\* entered it.
RECURSIVE StepTrace(_)
StepTrace(log) ==
    IF log = <<>> THEN <<>>
    ELSE LET rest == StepTrace(SubSeq(log, 1, Len(log) - 1))
             step == StepOf(log[Len(log)])
         IN  IF step = "none" \/ (Len(rest) > 0 /\ rest[Len(rest)] = step)
             THEN rest
             ELSE Append(rest, step)

\* C1: the pipeline steps happen in one fixed order, each once: at every
\* moment the steps entered so far are the first steps of load, split, write
\* CSV, upload, fit, deploy, predict, plot, delete, every step but the
\* current one has finished, no call was made twice, and a run that reaches
\* the end has gone through all nine.
C1_FixedStepOrder ==
    LET t == StepTrace(ops)
    IN  /\ Len(t) <= Len(StepOrder)
        /\ t = SubSeq(StepOrder, 1, Len(t))
        /\ \A k \in 1..(Len(t) - 1) : Called(LastCall(t[k]))
        /\ NoRepeat(ops)
        /\ pc = "done" => t = StepOrder /\ Called(LastCall("delete"))

C1_Witness == pc = "done" /\ StepTrace(ops) = StepOrder /\ Len(plotted) > 0

\* C2: a run that reaches the end of the notebook has called delete_endpoint
\* on the predictor deploy returned, and leaves no endpoint of its own
\* being created or in service.
C2_EndpointTornDown ==
    pc = "done" =>
        /\ Called("deploy.return") /\ Called("delete_endpoint")
        /\ xgb_predictor.endpoint = endpoint.name
        /\ endpoint.status = "Deleted"

C2_Witness == pc = "done" /\ endpoint.status = "Deleted" /\ Len(requests) = 1

\* Every call the code cells contain, in the order of the source.
AllCalls ==
    <<"load_boston", "dataframe_X", "dataframe_Y", "split1", "split2",
      "path_exists", "makedirs", "to_csv_val", "to_csv_train",
      "upload_val", "upload_train", "get_image_uri", "estimator",
      "set_hyperparameters", "s3_input_train", "s3_input_validation",
      "fit", "fit.return", "deploy", "deploy.return", "set_content_type",
      "set_serializer", "predict", "fromstring", "plot", "delete_endpoint">>

IsNotMakedirs(e) == e # "makedirs"

\* C3 as claimed: no branching, so whatever the environment (the data
\* directory existing or not) a run executes the same sequence of calls,
\* every call of the source once.
C3_SameSequenceAlways ==
    pc = "done" => ops = AllCalls

\* C3, amended: the one branch of the notebook guards os.makedirs, which is
\* called exactly when the data directory did not exist; all other calls are
\* the same sequence in every run, a run that fails has made a first part of
\* that sequence, nothing follows a failure and no call is ever made again.
C3_StraightLineButMakedirs ==
    /\ NoRepeat(ops)
    /\ Called("makedirs") => ~env0.dirExists
    /\ Called("path_exists") => (Called("makedirs") <=> ~env0.dirExists)
    /\ LET rest  == SelectSeq(ops, IsNotMakedirs)
           fixed == SelectSeq(AllCalls, IsNotMakedirs)
       IN  /\ Len(rest) <= Len(fixed)
           /\ rest = SubSeq(fixed, 1, Len(rest))
           /\ pc = "done" => rest = fixed
    /\ pc = "aborted" => ~ENABLED Next

C3_Witness == pc = "done" /\ env0.dirExists /\ ~Called("makedirs")

\* C4: after the two splits the train, validation and test frames hold
\* pairwise disjoint sets of dataset rows whose union is the whole dataset,
\* no row twice, the X and Y frames of a partition hold the same rows in the
\* same order, and no validation row is a test row of the first split.
C4_Partition ==
    Called("split2") =>
        /\ Index(X_train) \cap Index(X_val) = {}
        /\ Index(X_train) \cap Index(X_test) = {}
        /\ Index(X_val) \cap Index(X_test) = {}
        /\ Index(X_train) \cup Index(X_val) \cup Index(X_test) = Index(X_bos_pd)
        /\ Len(X_train) + Len(X_val) + Len(X_test) = Len(X_bos_pd)
        /\ \A p \in {<<X_train, Y_train>>, <<X_val, Y_val>>, <<X_test, Y_test>>} :
              /\ Len(p[1]) = Len(p[2])
              /\ \A k \in 1..Len(p[1]) :
                    /\ p[1][k].idx = p[2][k].idx
                    /\ p[1][k] = X_bos_pd[p[1][k].idx + 1]
                    /\ p[2][k] = Y_bos_pd[p[2][k].idx + 1]

C4_Witness ==
    /\ Called("split2")
    /\ Len(X_test) > 1 /\ Len(X_val) > 0 /\ Len(X_train) > 0

\* The whole numbers next to a third of m.
Third(m) == {m \div 3, (m + 2) \div 3}

\* C5 as claimed: the first split leaves 1/3 of the n rows for testing and
\* 2/3 for training, the second 1/3 of those for validation and 2/3 for
\* training, each size the fraction of its input rounded down or up.
C5_SplitThirds ==
    sz.stage = "split2" =>
        /\ sz.test \in Third(sz.n)
        /\ sz.val \in Third(sz.n - sz.test)
        /\ sz.train = sz.n - sz.test - sz.val

\* The rows of the dataset a partition's k-th row comes from.
RowOf(frame, k) == frame[k].idx + 1

\* A file's line for dataset row i: the target, then the features.
CsvLine(i) == <<boston.target[i]>> \o boston.data[i]

\* C6: every line of train.csv and validation.csv is the target value of a
\* dataset row followed by that row's 13 feature values, line k being the
\* k-th row of the partition, and the file has as many lines as the
\* partition has rows: no header line, no index entry.
C6_CsvLayout ==
    \A p \in {<<"validation.csv", "to_csv_val", X_val>>,
              <<"train.csv", "to_csv_train", X_train>>} :
        Called(p[2]) =>
            LET lines == files[p[1]].lines
            IN  /\ files[p[1]].exists
                /\ Len(lines) = Len(p[3])
                /\ \A k \in 1..Len(lines) :
                      /\ Len(lines[k]) = 1 + NumFeatures
                      /\ lines[k] = CsvLine(RowOf(p[3], k))
                      /\ lines[k][1] = Target(RowOf(p[3], k))
                      /\ \A j \in 1..NumFeatures :
                            lines[k][1 + j] = Feature(RowOf(p[3], k), j)

C6_Witness ==
    /\ Called("to_csv_train") /\ Called("to_csv_val")
    /\ Len(files["train.csv"].lines) > 1 /\ Len(files["validation.csv"].lines) > 0

\* C7: every object the run writes has a key under the prefix in the default
\* bucket, and every object outside that prefix is as the run found it.
C7_WritesUnderPrefix ==
    /\ \A k \in written : UnderPrefix(k)
    /\ \A k \in Keys : ~UnderPrefix(k) => s3[k] = env0.s3[k]
    /\ \A k \in Keys : s3[k] # env0.s3[k] => k \in written
    /\ pc = "done" => written = OwnKeys

C7_Witness ==
    /\ pc = "done" /\ written = OwnKeys
    /\ \E k \in OtherKeys : env0.s3[k].exists
    /\ \A k \in OwnKeys : s3[k] # env0.s3[k]

\* C8: the test rows go to the endpoint in one request holding all of them,
\* and every request reaches the endpoint deploy returned while it is in
\* service: after deploy has returned and before delete_endpoint is called.
C8_PredictWhileInService ==
    /\ Len(requests) <= 1
    /\ (Len(requests) > 0 <=> Called("predict"))
    /\ \A k \in 1..Len(requests) :
          /\ requests[k].status = "InService"
          /\ requests[k].endpoint = endpoint.name
          /\ requests[k].rows = Values(X_test)
          /\ Called("deploy.return")
    /\ Called("predict") /\ Called("delete_endpoint") =>
          \E a, b \in 1..Len(ops) :
              a < b /\ ops[a] = "predict" /\ ops[b] = "delete_endpoint"

C8_Witness ==
    /\ Len(requests) = 1 /\ Len(requests[1].rows) > 1
    /\ endpoint.status = "InService" /\ pc = "fromstring"

\* C9: deploy is called only when the training job has completed: fit does
\* not return, and no later statement runs, while the job is in another
\* status, and the statuses fit reports are Starting, Downloading, Training,
\* Uploading, Completed in that order, none twice.
C9_DeployAfterTraining ==
    /\ Len(job.log) <= Len(JobStatuses)
    /\ job.log = SubSeq(JobStatuses, 1, Len(job.log))
    /\ job.status # "None" => job.log # <<>> /\ job.status = job.log[Len(job.log)]
    /\ Called("fit.return") => job.status = "Completed"
    /\ Called("deploy") => job.status = "Completed"
    /\ pc \notin {"aborted", "done"} /\ PcIndex(pc) >= PcIndex("deploy") =>
          job.status = "Completed"
    /\ endpoint.status # "None" => job.status = "Completed"

C9_Witness ==
    /\ Called("deploy") /\ job.log = JobStatuses /\ endpoint.status = "Creating"

\* C10: the job's train channel is the location of the uploaded train.csv,
\* its validation channel that of the uploaded validation.csv, both of
\* content type csv, and when fit is called both uploads have completed:
\* the objects at the two locations hold the rows of their partitions.
C10_ChannelsBound ==
    job.status # "None" =>
        /\ Called("upload_val") /\ Called("upload_train")
        /\ job.channels["train"] =
              [s3_data |-> S3Uri(UploadKey("train.csv")), content_type |-> "csv"]
        /\ job.channels["validation"] =
              [s3_data |-> S3Uri(UploadKey("validation.csv")), content_type |-> "csv"]
        /\ job.channels["train"].s3_data = train_location
        /\ job.channels["validation"].s3_data = val_location
        /\ s3[UploadKey("train.csv")] =
              [exists |-> TRUE, body |-> to_csv(concat(Y_train, X_train), FALSE, FALSE)]
        /\ s3[UploadKey("validation.csv")] =
              [exists |-> TRUE, body |-> to_csv(concat(Y_val, X_val), FALSE, FALSE)]

C10_Witness ==
    /\ job.status = "Training"
    /\ job.channels["train"].s3_data # job.channels["validation"].s3_data

\* The least of the first k recorded errors, and the first round it is at.
RecordedBest(k) ==
    CHOOSE r \in 0..(k - 1) :
        /\ \A q \in 0..(k - 1) : RecordedValidationRmse[r + 1] <= RecordedValidationRmse[q + 1]
        /\ \A q \in 0..(r - 1) : RecordedValidationRmse[q + 1] > RecordedValidationRmse[r + 1]

\* C11: with early_stopping_rounds=10 and num_round=200 the training runs
\* at most 200 rounds, 0 to 199, and it stops early at a round exactly when
\* the round is the first that is 10 rounds past the best round; the
\* recorded run has its best validation error at round 23 and 33 is its last
\* round.
C11_EarlyStopping ==
    /\ boost.round <= NumRound - 1
    /\ boost.round - boost.best_round <= EarlyStoppingRounds
    /\ boost.stage = "stopped" <=>
          boost.round >= 0 /\ boost.round - boost.best_round = EarlyStoppingRounds
    /\ boost.stage = "finished" =>
          boost.round = NumRound - 1 /\ boost.round - boost.best_round < EarlyStoppingRounds
    /\ boost.stage = "running" => boost.round < NumRound - 1
    /\ boost.round >= 0 => boost.best <= boost.err /\ boost.best_round <= boost.round
    /\ boost.source = "recorded" =>
          /\ boost.stage # "off_log"
          /\ boost.round >= 0 =>
                /\ boost.best_round = RecordedBest(boost.round + 1)
                /\ boost.best = RecordedValidationRmse[boost.best_round + 1]
          /\ boost.stage \in {"stopped", "finished"} =>
                /\ boost.stage = "stopped"
                /\ boost.best_round = 23
                /\ boost.round = 33
                /\ boost.round + 1 = Len(RecordedValidationRmse)

C11_Witness ==
    /\ boost.source = "recorded" /\ boost.stage = "stopped"
    /\ boost.round = 33 /\ boost.best_round = 23

\* The estimator as the two cells before fit leave it.
EstimatorAsBuilt ==
    [container |-> "xgboost:0.90-1", role |-> "execution-role",
     train_instance_count |-> 1, train_instance_type |-> TrainInstanceType,
     output_path |-> OutputPath, hyperparameters |-> Hyperparameters]

Before(a, b) ==
    \E i, j \in 1..Len(ops) : i < j /\ ops[i] = a /\ ops[j] = b

\* C12: the estimator is constructed and its hyperparameters are set before
\* fit is called, the training job starts with that container, role,
\* instance settings, output path and hyperparameters, and from the call of
\* fit to the end of the run, delete_endpoint included, the estimator keeps
\* every one of them.
C12_EstimatorFixedBeforeFit ==
    /\ Called("set_hyperparameters") => Before("estimator", "set_hyperparameters")
    /\ Called("fit") =>
          /\ Before("estimator", "fit") /\ Before("set_hyperparameters", "fit")
          /\ xgb = EstimatorAsBuilt
          /\ container = xgb.container
          /\ job.image = xgb.container
          /\ job.role = xgb.role
          /\ job.instance_count = xgb.train_instance_count
          /\ job.instance_type = xgb.train_instance_type
          /\ job.output_path = xgb.output_path
          /\ job.hyperparameters = xgb.hyperparameters
    /\ ~Called("fit") => job.status = "None"

C12_Witness ==
    /\ Called("delete_endpoint") /\ xgb = EstimatorAsBuilt
    /\ job.hyperparameters = Hyperparameters

====
